---- MODULE Spec2Model ----
(***************************************************************************)
(* Timing-synchronisation and batched-assembly engine of the video caption *)
(* creator: the subtitle-to-audio pipeline (processors/sub2audio.py), the  *)
(* duration rescaler and the batch renderer / segment assembler            *)
(* (processors/video_processor.py, gui.py).                                *)
(*                                                                         *)
(* Times are integer milliseconds.  A speed factor is a rational <<n, d>>. *)
(***************************************************************************)
EXTENDS Integers, Sequences, FiniteSets, TLC

VARIABLES
    pc,          \* position of the run that the specification describes
    mode,        \* which entry point drives the batches: process_images or generate_video
    images,      \* the ordered frame list handed to the batch renderer
    future,      \* per batch index: "pending" | "running" | "done" | "collected"
    outcome,     \* per batch index: what process_batch returned (None or a segment path)
    batches,     \* the frame list cut into batches, empty until cut
    segments,    \* the caller's segment collection (list, or slot array with None)
    concat_list, \* the list written to final_list.txt, empty until concatenation
    result,      \* what the entry point returned / raised
    batch,       \* process_batch: the frames of the batch it was given
    batch_idx,   \* ... and the index of that batch
    list_file,   \* ... the lines it wrote to the encoder's input list
    encoder,     \* ... how the encoder run on that list ended
    rendered,    \* ... and what it returned
    frames,      \* calculate_adjusted_durations: the frame records passed in
    audio_duration, \* ... and the target duration, in tenths of a millisecond
    adjusted_frames, \* ... and the list it returned
    srt,         \* the SRT entries the regex matched: number, time stamps, text
    data,        \* convert_to_audio's working copy of the subtitle entries
    clip,        \* per entry: the real length (ms) of its clip file on disk
    tempo,       \* tempo_mode, tempo_speed, tempo_limit of the run
    shift,       \* shift_mode, shift_limit of the run
    applied_speed, \* per entry: the factor the last tempo pass put on its clip
    tempo_out,   \* per entry: how the last tempo pass ended for it
    runs,        \* how many tempo passes have run over data
    before,      \* data as it was when the last tempo pass or the shifter began
    error,       \* the exception convert_to_audio ended with, if any
    tts_calls,   \* how many times the TTS engine was asked for a clip
    tts_log,     \* the entries it was asked for, in the order of the calls
    strict_timing, \* the strict_timing argument of the run
    load,        \* per entry: what the assembler finds when it opens the clip
    base_audio,  \* length (ms) of the track _build_final_audio returned, 0 before
    overlaid,    \* the overlays made on it, in order: entry, position, length
    output,      \* the exported WAV file
    video_ms,    \* sync_audio_with_video: the probed duration of the video file
    audio_ms,    \* ... and of the audio file
    synced,      \* ... what it returned and the streams of the file it wrote
    running,     \* the application's self.running flag
    thread,      \* per started run: its kind and where its worker thread is
    pool,        \* per started run: the state of the futures of its executor
    futures,     \* self.futures: the run whose futures it holds, 0 for []
    cancel,      \* where an executing cancel_generation is in its loop
    blocks,      \* process_srt: the blocks of the input file
    delay_ms,    \* ... the delay it was called with
    processed    \* ... and the blocks it wrote

batchVars == <<mode, images, batches, future, outcome, segments, concat_list, result>>
rescaleVars == <<frames, audio_duration, adjusted_frames>>
audioVars == <<srt, data, clip, tempo, shift, applied_speed, tempo_out, runs, before, error>>
trackVars == <<tts_calls, tts_log, strict_timing, load, base_audio, overlaid, output>>
renderVars == <<batch, batch_idx, list_file, encoder, rendered>>
syncVars == <<video_ms, audio_ms, synced>>
appVars == <<running, thread, pool, futures, cancel>>
delayVars == <<blocks, delay_ms, processed>>
vars == <<pc, batchVars, renderVars, rescaleVars, audioVars, trackVars, syncVars, appVars,
          delayVars>>

\* Python's None, for a slot that holds a segment path and for a returned value
None == [dir |-> <<>>, base |-> <<>>]
NoResult == "None"

----------------------------------------------------------------------------
(* Bounds of the model *)

MaxFrames == 160
\* longest frame list given to the duration rescaler
MaxRescaleFrames == 3
\* most entries in a subtitle file
MaxEntries == 3
\* most entries in a run of the tempo resolver
MaxTempoEntries == 2
\* how often the tempo pass is run over the same timeline
MaxTempoRuns == 2
\* most subtitle entries in an assembly run
MaxTrackEntries == 3
\* longest frame list cut into batches without rendering them
MaxPartitionFrames == 520
\* most frames in a batch whose rendering is looked at frame by frame
MaxBatchFrames == 3
\* most entries in a subtitle file handed to the synthesis loop
MaxSynthEntries == 3
\* most blocks in a subtitle file whose timings are delayed
MaxDelayBlocks == 3
\* most runs started from the window, and most batches of one of them
MaxRuns == 2
MaxRunBatches == 3

----------------------------------------------------------------------------
(* Generic helpers *)

Max(a, b) == IF a >= b THEN a ELSE b
Min(a, b) == IF a <= b THEN a ELSE b
Abs(a) == IF a >= 0 THEN a ELSE -a

RECURSIVE SumSeq(_)
SumSeq(s) == IF s = <<>> THEN 0 ELSE Head(s) + SumSeq(Tail(s))

\* round(num / den) to the nearest integer, ties to even, for den > 0
RoundHalfEven(num, den) ==
    LET q == num \div den
        r == num % den
    IN IF 2 * r > den THEN q + 1
       ELSE IF 2 * r < den THEN q
       ELSE IF q % 2 = 0 THEN q ELSE q + 1

----------------------------------------------------------------------------
(* Values of the variables a specification does not use *)

BatchIdle ==
    /\ mode = "idle"
    /\ images = <<>>
    /\ batches = <<>>
    /\ future = <<>>
    /\ outcome = <<>>
    /\ segments = <<>>
    /\ concat_list = <<>>
    /\ result = "None"

RenderIdle ==
    /\ batch = <<>>
    /\ batch_idx = 0
    /\ list_file = <<>>
    /\ encoder = "idle"
    /\ rendered = [dir |-> <<>>, base |-> <<>>]

RescaleIdle ==
    /\ frames = <<>>
    /\ audio_duration = 0
    /\ adjusted_frames = <<>>

\* a rational speed factor n/d; Python's None has denominator 0
NoneSpeed == <<0, 0>>
RatLess(a, b) == a[1] * b[2] < b[1] * a[2]

NoTempo == [mode |-> "None", speed |-> NoneSpeed, limit |-> NoneSpeed]
NoShift == [mode |-> "None", limit |-> [kind |-> "None", number |-> 0, suffix |-> ""]]

TrackIdle ==
    /\ tts_calls = 0
    /\ tts_log = <<>>
    /\ strict_timing = FALSE
    /\ load = <<>>
    /\ base_audio = 0
    /\ overlaid = <<>>
    /\ output = "None"

\* the file sync_audio_with_video has not written yet
NotSynced == [returned |-> "None", retimed |-> FALSE, audio_out |-> 0]

SyncIdle ==
    /\ video_ms = 0
    /\ audio_ms = 0
    /\ synced = NotSynced

\* cancel_generation is not executing
NoCancel == [at |-> 0, of |-> 0]

AppIdle ==
    /\ running = FALSE
    /\ thread = <<>>
    /\ pool = <<>>
    /\ futures = 0
    /\ cancel = NoCancel

DelayIdle ==
    /\ blocks = <<>>
    /\ delay_ms = 0
    /\ processed = <<>>

OtherIdle == SyncIdle /\ AppIdle /\ DelayIdle

AudioIdle ==
    /\ TrackIdle
    /\ srt = <<>>
    /\ data = <<>>
    /\ clip = <<>>
    /\ tempo = NoTempo
    /\ shift = NoShift
    /\ applied_speed = <<>>
    /\ tempo_out = <<>>
    /\ runs = 0
    /\ before = <<>>
    /\ error = "None"

----------------------------------------------------------------------------
(* Batch renderer and segment assembler *)

\* the floor of the batch size, and the batch_size setting's default
BatchFloor == 50
DefaultBatchSize == 50
\* worker pool sizes of the two entry points
PoolProcessImages == 4
PoolGenerateVideo == 2

\* batch_size as each entry point computes it
BatchSize(m, n) ==
    IF m = "process_images" THEN Max(n \div 10, BatchFloor) ELSE DefaultBatchSize

\* range(0, len(images), batch_size) stopping before the short last slice
BatchesWithoutRemainder(imgs, size) ==
    [b \in 1..(Len(imgs) \div size) |-> SubSeq(imgs, (b - 1) * size + 1, b * size)]

\* [images[i:i+batch_size] for i in range(0, len(images), batch_size)]
Batches(imgs, size) ==
    LET n == Len(imgs)
        k == (n + size - 1) \div size
    IN [b \in 1..k |-> SubSeq(imgs, (b - 1) * size + 1, Min(b * size, n))]

\* batch indices are 0-based in the source
NumBatches == Len(Batches(images, BatchSize(mode, Len(images))))
BatchIdx == 0..(NumBatches - 1)

MaxWorkers == IF mode = "process_images" THEN PoolProcessImages ELSE PoolGenerateVideo

\* decimal digits of a natural number, most significant first
RECURSIVE DecDigits(_)
DecDigits(n) == IF n < 10 THEN <<n>> ELSE DecDigits(n \div 10) \o <<n % 10>>

\* f"{batch_idx:04d}"
RECURSIVE PadLeft(_, _)
PadLeft(ds, w) == IF Len(ds) >= w THEN ds ELSE PadLeft(<<0>> \o ds, w)
Format04d(idx) == PadLeft(DecDigits(idx), 4)

\* int("0003")
RECURSIVE ParseInt(_)
ParseInt(ds) ==
    IF ds = <<>> THEN 0 ELSE 10 * ParseInt(SubSeq(ds, 1, Len(ds) - 1)) + ds[Len(ds)]

\* os.path.join(process_dir, f"batch_{batch_idx:04d}.mp4"): every call of
\* process_batch gets a process directory of its own
SegmentPath(idx) ==
    [dir |-> <<"process", idx>>, base |-> <<"batch", Format04d(idx), "mp4">>]

\* int(os.path.basename(x).split('_')[1].split('.')[0])
SegmentKey(x) == ParseInt(x.base[2])

\* list.sort(key=...): a stable sort, here by insertion
RECURSIVE InsertByKey(_, _)
InsertByKey(sorted, x) ==
    IF sorted = <<>> THEN <<x>>
    ELSE IF SegmentKey(x) < SegmentKey(Head(sorted)) THEN <<x>> \o sorted
         ELSE <<Head(sorted)>> \o InsertByKey(Tail(sorted), x)

RECURSIVE SortByKey(_)
SortByKey(s) ==
    IF s = <<>> THEN <<>>
    ELSE InsertByKey(SortByKey(SubSeq(s, 1, Len(s) - 1)), s[Len(s)])

IsSegment(s) == s # None

\* a plausible slip: the failed batches are dropped but the list is left as collected
GetOrderedSegmentsUnsorted(segs) == SelectSeq(segs, IsSegment)

\* _get_ordered_segments: drop the failed batches, sort by the index in the file name
GetOrderedSegments(segs) == SortByKey(SelectSeq(segs, IsSegment))

\* the segment files on disk that probe as a video: those process_batch returned
ValidVideo(s) == \E b \in BatchIdx : outcome[b] = s /\ s # None

\* combine_segments up to the concat list: order, validate, refuse an empty list
CombineList(segs) == SelectSeq(GetOrderedSegments(segs), ValidVideo)

InitBatch ==
    /\ OtherIdle
    /\ pc = "submit"
    /\ mode \in {"process_images", "generate_video"}
    /\ \E n \in 0..MaxFrames : images = [i \in 1..n |-> i]
    /\ batches = <<>>
    /\ future = <<>>
    /\ outcome = <<>>
    /\ segments = <<>>
    /\ concat_list = <<>>
    /\ result = NoResult
    /\ RescaleIdle
    /\ RenderIdle
    /\ AudioIdle

\* executor.submit for every batch; process_images pre-allocates one slot per batch
Submit ==
    /\ pc = "submit"
    /\ IF mode = "generate_video" /\ images = <<>>
       THEN \* generate_video refuses an empty entry list before it cuts batches
            /\ pc' = "finished"
            /\ result' = "ValueError"
            /\ UNCHANGED <<batches, future, outcome, segments>>
       ELSE /\ pc' = "render"
            /\ batches' = Batches(images, BatchSize(mode, Len(images)))
            /\ future' = [b \in BatchIdx |-> "pending"]
            /\ outcome' = [b \in BatchIdx |-> None]
            /\ segments' = IF mode = "process_images"
                           THEN [b \in 1..NumBatches |-> None] ELSE <<>>
            /\ result' = result
    /\ UNCHANGED <<mode, images, concat_list, rescaleVars, renderVars, audioVars, trackVars, syncVars, appVars, delayVars>>

\* a free worker takes the oldest queued batch
BatchStart(b) ==
    /\ pc = "render"
    /\ future[b] = "pending"
    /\ \A c \in BatchIdx : c < b => future[c] # "pending"
    /\ Cardinality({c \in BatchIdx : future[c] = "running"}) < MaxWorkers
    /\ future' = [future EXCEPT ![b] = "running"]
    /\ UNCHANGED <<pc, mode, images, batches, outcome, segments, concat_list, result, rescaleVars, renderVars, audioVars, trackVars, syncVars, appVars, delayVars>>

\* process_batch returns the segment path when the encoder produced a valid video
BatchOk(b) ==
    /\ pc = "render"
    /\ future[b] = "running"
    /\ future' = [future EXCEPT ![b] = "done"]
    /\ outcome' = [outcome EXCEPT ![b] = SegmentPath(b)]
    /\ UNCHANGED <<pc, mode, images, batches, segments, concat_list, result, rescaleVars, renderVars, audioVars, trackVars, syncVars, appVars, delayVars>>

\* process_batch returns None: bad frame, encoder error, or no video stream
BatchFail(b) ==
    /\ pc = "render"
    /\ future[b] = "running"
    /\ future' = [future EXCEPT ![b] = "done"]
    /\ outcome' = [outcome EXCEPT ![b] = None]
    /\ UNCHANGED <<pc, mode, images, batches, segments, concat_list, result, rescaleVars, renderVars, audioVars, trackVars, syncVars, appVars, delayVars>>

\* a failed batch ends the as_completed loop and the run
CollectAborting(b) ==
    /\ pc = "render"
    /\ future[b] = "done"
    /\ future' = [future EXCEPT ![b] = "collected"]
    /\ IF outcome[b] = None
       THEN /\ pc' = "finished"
            /\ result' = IF mode = "process_images" THEN "False" ELSE "RuntimeError"
            /\ segments' = segments
       ELSE /\ pc' = pc
            /\ result' = result
            /\ segments' = IF mode = "process_images"
                           THEN [segments EXCEPT ![b + 1] = outcome[b]]
                           ELSE Append(segments, outcome[b])
    /\ UNCHANGED <<mode, images, batches, outcome, concat_list, rescaleVars, renderVars,
                   audioVars, trackVars, syncVars, appVars, delayVars>>

\* one turn of the as_completed loop, for any finished future
Collect(b) ==
    /\ pc = "render"
    /\ future[b] = "done"
    /\ future' = [future EXCEPT ![b] = "collected"]
    /\ segments' =
         IF outcome[b] = None THEN segments
         ELSE IF mode = "process_images"
              THEN [segments EXCEPT ![b + 1] = outcome[b]]
              ELSE Append(segments, outcome[b])
    /\ UNCHANGED <<pc, mode, images, batches, outcome, concat_list, result, rescaleVars, renderVars, audioVars, trackVars, syncVars, appVars, delayVars>>

\* an empty segment list is handed on as if it were a video
ResultWhenEmptyTrue(m) == "True"

\* no segment at all: process_images returns False, generate_video raises
ResultWhenEmpty(m) == IF m = "process_images" THEN "False" ELSE "RuntimeError"

\* after the pool has drained: order the segments and hand them to concatenation
Combine ==
    /\ pc = "render"
    /\ \A b \in BatchIdx : future[b] = "collected"
    /\ pc' = "finished"
    /\ LET handed == IF mode = "process_images"
                     THEN GetOrderedSegments(segments) ELSE segments
       IN IF handed = <<>>
          THEN /\ concat_list' = <<>>
               /\ result' = ResultWhenEmpty(mode)
          ELSE /\ concat_list' = CombineList(handed)
               /\ result' = IF CombineList(handed) = <<>> THEN "False" ELSE "True"
    /\ UNCHANGED <<mode, images, batches, future, outcome, segments, rescaleVars, renderVars, audioVars, trackVars, syncVars, appVars, delayVars>>

NextBatch ==
    \/ Submit
    \/ \E b \in BatchIdx : BatchStart(b)
    \/ \E b \in BatchIdx : BatchOk(b)
    \/ \E b \in BatchIdx : BatchFail(b)
    \/ \E b \in BatchIdx : Collect(b)
    \/ Combine

SpecBatch == InitBatch /\ [][NextBatch]_vars

\* what a frame record of a batch points at: a 1280x720 RGB image, an image of
\* other dimensions, a path without a file, or no path at all
FrameKinds == {"good", "wrong_size", "missing", "nopath"}
Unreadable(kind) == kind \in {"missing", "nopath"}

\* how the encoder run ends: a valid video, an ffmpeg error, or an output
\* file in which is_valid_video finds no video stream
EncoderOutcomes == {"ok", "error", "no_video_stream"}

\* Image.open(batch[0]['path']) and the checks of size and mode
FirstImage(b) ==
    IF Unreadable(b[1].kind) THEN "exception"
    ELSE IF b[1].kind = "wrong_size" THEN "invalid"
    ELSE "valid"

\* the lines written for one frame: the frame's file, or the blank image
\* generated in its place
ListEntry(b, idx, i) ==
    IF Unreadable(b[i].kind)
    THEN [file |-> <<"blank", Format04d(idx)>>, frame |-> i]
    ELSE [file |-> <<"frame", b[i].path>>, frame |-> i]

\* process_batch(batch, batch_idx)
ProcessBatch(b, idx, enc) ==
    IF b = <<>> THEN [list_file |-> <<>>, encoder |-> "not_run", rendered |-> None]
    ELSE IF FirstImage(b) # "valid"
    THEN [list_file |-> <<>>, encoder |-> "not_run", rendered |-> None]
    ELSE [list_file |-> [i \in 1..Len(b) |-> ListEntry(b, idx, i)],
          encoder |-> enc,
          rendered |-> IF enc = "ok" THEN SegmentPath(idx) ELSE None]

\* the batches handed to process_batch in the sample runs
SampleBatches ==
    UNION {[1..n -> FrameKinds] : n \in 0..MaxBatchFrames}

InitRender ==
    /\ OtherIdle
    /\ pc = "batch"
    /\ BatchIdle
    /\ RescaleIdle
    /\ AudioIdle
    /\ \E kinds \in SampleBatches :
           batch = [i \in 1..Len(kinds) |-> [path |-> i, kind |-> kinds[i]]]
    /\ batch_idx \in 0..1
    /\ list_file = <<>>
    /\ encoder = "idle"
    /\ rendered = None

\* one call of process_batch
RenderBatch ==
    /\ pc = "batch"
    /\ pc' = "batch_done"
    /\ \E enc \in EncoderOutcomes :
        LET out == ProcessBatch(batch, batch_idx, enc)
        IN /\ list_file' = out.list_file
           /\ encoder' = out.encoder
           /\ rendered' = out.rendered
    /\ UNCHANGED <<batchVars, rescaleVars, audioVars, trackVars, syncVars, appVars, delayVars, batch, batch_idx>>

NextRender == RenderBatch

SpecRender == InitRender /\ [][NextRender]_vars

\* the cutting of long frame lists, looked at without the rendering
InitPartition ==
    /\ OtherIdle
    /\ pc = "submit"
    /\ mode \in {"process_images", "generate_video"}
    /\ \E n \in 0..MaxPartitionFrames : images = [i \in 1..n |-> i]
    /\ batches = <<>>
    /\ future = <<>>
    /\ outcome = <<>>
    /\ segments = <<>>
    /\ concat_list = <<>>
    /\ result = NoResult
    /\ RescaleIdle
    /\ RenderIdle
    /\ AudioIdle

NextPartition == Submit

SpecPartition == InitPartition /\ [][NextPartition]_vars

\* C1: whatever the number of batches and the order in which workers finish or
\* fail, the list handed to concatenation is strictly increasing in batch index
\* and holds exactly the batches that produced a valid segment.
C1_OrderedSegments ==
    (pc = "finished" /\ result = "True") =>
        /\ \A i \in 1..(Len(concat_list) - 1) :
               SegmentKey(concat_list[i]) < SegmentKey(concat_list[i + 1])
        /\ {SegmentKey(concat_list[i]) : i \in 1..Len(concat_list)}
               = {b \in BatchIdx : outcome[b] # None}
        /\ \A i \in 1..Len(concat_list) :
               concat_list[i] = outcome[SegmentKey(concat_list[i])]

\* a later batch was collected before an earlier one, one batch failed, and the
\* list was still handed over
C1_Witness ==
    /\ pc = "finished"
    /\ mode = "generate_video"
    /\ result = "True"
    /\ Len(segments) >= 2
    /\ SegmentKey(segments[1]) > SegmentKey(segments[2])
    /\ \E b \in BatchIdx : outcome[b] = None

----------------------------------------------------------------------------
(* Duration rescaler.  Frame durations are whole milliseconds (the renderer   *)
(* derives them from subtitle times), the probed target is in tenths of a     *)
(* millisecond; the arithmetic is exact where the source uses floats.          *)

\* min_duration = 0.033, in ms
MinDuration == 33

\* sample inputs: raw frame durations (ms) and probed audio durations (0.1 ms)
FrameDurations == {0, 10, 2000, 4000}
AudioDurations == {500, 10000, 99995, 100000, 100004}

\* sum(frame.get('duration', 0) for frame in frames)
RECURSIVE TotalFrameDuration(_)
TotalFrameDuration(fs) ==
    IF fs = <<>> THEN 0 ELSE Head(fs).duration + TotalFrameDuration(Tail(fs))

\* max(round(frame['duration'] * scaling_factor, 3), min_duration), in ms
ScaledDuration(d, target, total) ==
    Max(RoundHalfEven(d * target, 10 * total), MinDuration)

\* a plausible slip: the last frame is scaled like the others
LastDurationScaled(d, target, total, accumulated) ==
    ScaledDuration(d, target, total)

\* round(audio_duration - accumulated_duration, 3), in ms
LastDuration(d, target, total, accumulated) ==
    RoundHalfEven(target - 10 * accumulated, 10)

\* the loop of calculate_adjusted_durations from frame i on
RECURSIVE AdjustFrom(_, _, _, _, _)
AdjustFrom(fs, i, target, total, accumulated) ==
    IF i > Len(fs) THEN <<>>
    ELSE LET duration ==
                 IF i = Len(fs)
                 THEN LastDuration(fs[i].duration, target, total, accumulated)
                 ELSE ScaledDuration(fs[i].duration, target, total)
         IN <<[fs[i] EXCEPT !.duration = duration]>>
                \o AdjustFrom(fs, i + 1, target, total, accumulated + duration)

\* a plausible slip: nothing is returned when the durations cannot be scaled
CalculateAdjustedDurationsEmptyOnFailure(fs, target) ==
    LET total == TotalFrameDuration(fs)
    IN IF total <= 0 THEN <<>> ELSE AdjustFrom(fs, 1, target, total, 0)

\* calculate_adjusted_durations(frames, audio_duration)
CalculateAdjustedDurations(fs, target) ==
    LET total == TotalFrameDuration(fs)
    IN IF total <= 0 THEN fs ELSE AdjustFrom(fs, 1, target, total, 0)

InitRescale ==
    /\ OtherIdle
    /\ pc = "rescale"
    /\ BatchIdle
    /\ RenderIdle
    /\ AudioIdle
    /\ \E n \in 0..MaxRescaleFrames : \E ds \in [1..n -> FrameDurations] :
           frames = [i \in 1..n |-> [path |-> i, duration |-> ds[i]]]
    /\ audio_duration \in AudioDurations
    /\ adjusted_frames = <<>>

Rescale ==
    /\ pc = "rescale"
    /\ pc' = "rescaled"
    /\ adjusted_frames' = CalculateAdjustedDurations(frames, audio_duration)
    /\ UNCHANGED <<batchVars, renderVars, audioVars, trackVars, syncVars, appVars, delayVars, frames, audio_duration>>

NextRescale == Rescale

SpecRescale == InitRescale /\ [][NextRescale]_vars

\* C4: for a non-empty frame list with positive total raw duration and a target
\* T > 0, the returned durations sum to T within 1 ms.
C4_SumMatchesTarget ==
    (pc = "rescaled" /\ TotalFrameDuration(frames) > 0) =>
        Abs(10 * TotalFrameDuration(adjusted_frames) - audio_duration) <= 10

\* an earlier frame was lifted to the floor, so the last frame had to absorb it
C4_Witness ==
    /\ pc = "rescaled"
    /\ TotalFrameDuration(frames) > 0
    /\ Len(frames) >= 2
    /\ \E i \in 1..(Len(frames) - 1) :
           /\ adjusted_frames[i].duration = MinDuration
           /\ RoundHalfEven(frames[i].duration * audio_duration,
                            10 * TotalFrameDuration(frames)) < MinDuration
    /\ Abs(10 * TotalFrameDuration(adjusted_frames) - audio_duration) <= 10

\* C5: every returned duration, the last frame's included, is at least the
\* floor of one output frame (33 ms).
C5_EveryDurationAtLeastFloor ==
    (pc = "rescaled" /\ TotalFrameDuration(frames) > 0) =>
        \A i \in 1..Len(adjusted_frames) : adjusted_frames[i].duration >= MinDuration

\* C25: the rescaler returns its input unchanged when the raw durations sum to
\* 0 or less; otherwise, for a target T > 0, it returns as many frames as it
\* got, with the same paths in the same order, every frame but the last having
\* its scaled duration max(round(d * T / total), 33 ms).
C25_FailsClosedOnlyOnZeroTotal ==
    (pc = "rescaled") =>
        /\ TotalFrameDuration(frames) <= 0 => adjusted_frames = frames
        /\ (TotalFrameDuration(frames) > 0 /\ audio_duration > 0) =>
               /\ Len(adjusted_frames) = Len(frames)
               /\ \A i \in 1..Len(frames) : adjusted_frames[i].path = frames[i].path
               /\ \A i \in 1..(Len(frames) - 1) :
                      adjusted_frames[i].duration =
                          Max(RoundHalfEven(frames[i].duration * audio_duration,
                                            10 * TotalFrameDuration(frames)), MinDuration)

\* several frames, all of duration 0: the list comes back as it was
C25_Witness ==
    /\ pc = "rescaled"
    /\ Len(frames) >= 2
    /\ TotalFrameDuration(frames) = 0
    /\ adjusted_frames = frames

\* three frames of different durations were rescaled in place
C25_WitnessRescaled ==
    /\ pc = "rescaled"
    /\ Len(frames) = 3
    /\ TotalFrameDuration(frames) > 0
    /\ frames[1].duration # frames[2].duration
    /\ adjusted_frames # frames
    /\ \A i \in 1..3 : adjusted_frames[i].path = frames[i].path

----------------------------------------------------------------------------
(* Timeline model: SubToAudio.subtitle / _extract_data_srt *)

\* the HH:MM:SS,mmm stamps that occur in the sample subtitle files
StampSeconds == {0, 2, 4, 6}
Stamps == {[h |-> 0, m |-> 0, s |-> sec, ms |-> 0] : sec \in StampSeconds}
Texts == {"hello"}

\* _convert_time_to_intmil
ConvertTimeToIntmil(t) == (t.h * 3600 + t.m * 60 + t.s) * 1000 + t.ms

\* a plausible slip: the slot is always the entry's own duration
SubTimeOwnDuration(start_time, end_time, has_next, next_start_time) ==
    Max(1, end_time - start_time)

\* sub_time: the time until the next entry starts, the own duration for the
\* last entry, never below 1 ms
SubTime(start_time, end_time, has_next, next_start_time) ==
    Max(1, IF has_next THEN next_start_time - start_time ELSE end_time - start_time)

\* str.strip() on the texts of the sample files
Strip(t) == IF t = " " THEN "" ELSE t

\* the end stamp is taken as it is written in the file
CoerceEndKept(start_time, raw_end) == raw_end

\* an end that is not after the start becomes start + 1
CoerceEnd(start_time, raw_end) == IF raw_end <= start_time THEN start_time + 1 ELSE raw_end

\* one turn of the loop over the regex matches
ExtractEntry(matches, i) ==
    LET start_time == ConvertTimeToIntmil(matches[i].start)
        raw_end == ConvertTimeToIntmil(matches[i].end)
        end_time == CoerceEnd(start_time, raw_end)
        has_next == i + 1 <= Len(matches)
        next_start_time == IF has_next THEN ConvertTimeToIntmil(matches[i + 1].start) ELSE 0
    IN [entry_number |-> matches[i].entry_number,
        start_time |-> start_time,
        end_time |-> end_time,
        half_ms |-> 0,
        text |-> Strip(matches[i].text),
        sub_time |-> SubTime(start_time, end_time, has_next, next_start_time),
        audio_length |-> 0]

\* _extract_data_srt
ExtractDataSrt(matches) == [i \in 1..Len(matches) |-> ExtractEntry(matches, i)]

\* subtitle files of n entries with the given stamps
SrtFile(n, starts, ends, texts) ==
    [i \in 1..n |-> [entry_number |-> i, start |-> starts[i], end |-> ends[i],
                      text |-> texts[i]]]

AllSrtFiles ==
    UNION {{SrtFile(n, st, en, tx) :
               st \in [1..n -> Stamps], en \in [1..n -> Stamps], tx \in [1..n -> Texts]}
           : n \in 0..MaxEntries}

InitTimeline ==
    /\ OtherIdle
    /\ pc = "parse"
    /\ BatchIdle
    /\ RescaleIdle
    /\ RenderIdle
    /\ TrackIdle
    /\ srt \in AllSrtFiles
    /\ data = <<>>
    /\ clip = <<>>
    /\ tempo = NoTempo
    /\ shift = NoShift
    /\ applied_speed = <<>>
    /\ tempo_out = <<>>
    /\ runs = 0
    /\ before = <<>>
    /\ error = "None"

\* subtitle(file_path)
Subtitle ==
    /\ pc = "parse"
    /\ pc' = "synth"
    /\ data' = ExtractDataSrt(srt)
    /\ UNCHANGED <<batchVars, rescaleVars, renderVars, trackVars, syncVars, appVars, delayVars, srt, clip, tempo, shift, applied_speed,
                   tempo_out, runs, before, error>>

NextTimeline == Subtitle

SpecTimeline == InitTimeline /\ [][NextTimeline]_vars

SortedByStart(d) == \A i \in 1..(Len(d) - 1) : d[i].start_time <= d[i + 1].start_time

\* C6 as stated: on a timeline sorted by start, every slot but the last is the
\* next start minus the own start, the last is end minus start, all are >= 1.
C6_SlotIsGapToNext ==
    (pc = "synth" /\ SortedByStart(data)) =>
        /\ \A i \in 1..(Len(data) - 1) :
               data[i].sub_time = data[i + 1].start_time - data[i].start_time
        /\ Len(data) >= 1 =>
               data[Len(data)].sub_time
                   = data[Len(data)].end_time - data[Len(data)].start_time
        /\ \A i \in 1..Len(data) : data[i].sub_time >= 1

\* C6 amended: the slot is the gap to the next start but never less than 1 ms,
\* so it is 1 where two entries start together; the last slot is end - start.
C6_SlotIsGapAtLeastOne ==
    (pc = "synth" /\ SortedByStart(data)) =>
        /\ \A i \in 1..(Len(data) - 1) :
               LET gap == ConvertTimeToIntmil(srt[i + 1].start)
                              - ConvertTimeToIntmil(srt[i].start)
               IN /\ gap >= 1 => data[i].sub_time = gap
                  /\ gap < 1 => data[i].sub_time = 1
        /\ Len(data) >= 1 =>
               data[Len(data)].sub_time
                   = data[Len(data)].end_time - data[Len(data)].start_time
        /\ \A i \in 1..Len(data) : data[i].sub_time >= 1

\* three entries: two start together, then a real gap, then the last entry
C6_Witness ==
    /\ pc = "synth"
    /\ Len(data) = 3
    /\ SortedByStart(data)
    /\ data[1].start_time = data[2].start_time
    /\ data[1].sub_time = 1
    /\ data[2].sub_time = data[3].start_time - data[2].start_time
    /\ data[2].sub_time > 1
    /\ data[3].sub_time = data[3].end_time - data[3].start_time

----------------------------------------------------------------------------
(* Speech segment generator and tempo resolver *)

\* clip lengths (ms) the TTS engine produces in the sample runs
AudioLengths == {1000, 2010, 2500, 5000}
\* length of the placeholder written for an entry without text
SilenceLength == 10

One == <<1, 1>>
\* the range _adjust_tempo clamps to
SafeLow == <<1, 2>>
SafeHigh == <<4, 1>>
\* the lowest tempo_limit _validate_inputs accepts
LimitFloor == <<1, 2>>

\* the tempo settings of the sample runs
TempoConfigs ==
    {[mode |-> "all", speed |-> sp, limit |-> li] :
        sp \in {<<3, 1>>, <<5, 1>>}, li \in {<<2, 1>>}}
    \cup {[mode |-> mo, speed |-> NoneSpeed, limit |-> li] :
        mo \in {"overflow", "precise"},
        li \in {NoneSpeed, <<1, 4>>, <<3, 4>>, <<2, 1>>}}
    \cup {NoTempo}

\* _validate_inputs, the tempo part: what lets convert_to_audio go on
ValidTempo(cfg) ==
    /\ cfg.mode \in {"None", "all", "overflow", "precise"}
    /\ cfg.mode = "all" => cfg.speed # NoneSpeed
    /\ cfg.mode \in {"overflow", "precise"} =>
           (cfg.limit = NoneSpeed \/ ~RatLess(cfg.limit, LimitFloor))

\* the engine is asked for every entry, whatever its text
EmptyTextNever(t) == FALSE

\* entry.get('text', '').strip() is empty
EmptyText(t) == Strip(t) = ""

\* _generate_audio_segments with every TTS call succeeding: lens[i] is the
\* measured length of the clip the engine wrote for entry i
GenerateAudioSegments(d, lens) ==
    [i \in 1..Len(d) |->
        [d[i] EXCEPT !.audio_length =
            IF EmptyText(d[i].text) THEN SilenceLength ELSE lens[i]]]

\* _generate_audio_segments when the engine fails on entry k: the entries
\* before it have their clips and lengths, entry k and the later ones have none
GenerateAudioSegmentsFailing(d, lens, k) ==
    [i \in 1..Len(d) |->
        IF i < k THEN GenerateAudioSegments(d, lens)[i] ELSE d[i]]

\* the entries tts_method was called for when the loop has gone through entry
\* k: one call for each entry whose text is not empty, none for the others
RECURSIVE TtsLog(_, _)
TtsLog(d, k) ==
    IF k = 0 THEN <<>>
    ELSE IF k > Len(d) THEN TtsLog(d, Len(d))
    ELSE IF EmptyText(d[k].text) THEN TtsLog(d, k - 1)
    ELSE Append(TtsLog(d, k - 1), k)

\* the calls of tts_method made for the entries up to and including entry k
TtsCalls(d, k) == Cardinality({i \in 1..Min(k, Len(d)) : ~EmptyText(d[i].text)})

\* target_time of _process_timing
TargetTime(d, idx, tempo_mode) ==
    LET sub_start == d[idx].start_time
        sub_end == d[idx].end_time
        next_start_time == IF idx + 1 <= Len(d) THEN d[idx + 1].start_time
                           ELSE sub_end + (sub_end - sub_start)
    IN Max(1, IF tempo_mode = "overflow" THEN next_start_time - sub_start
              ELSE sub_end - sub_start)

\* a plausible slip: the limit is never applied
ClampToLimitIgnored(calculated_speed, tempo_limit) == calculated_speed

\* if tempo_limit is not None and target_speed > tempo_limit: target_speed = tempo_limit
ClampToLimit(calculated_speed, tempo_limit) ==
    IF tempo_limit # NoneSpeed /\ RatLess(tempo_limit, calculated_speed)
    THEN tempo_limit ELSE calculated_speed

\* target_speed of _process_timing
TargetSpeed(d, idx, cfg) ==
    IF cfg.mode = "all"
    THEN IF cfg.speed # NoneSpeed THEN cfg.speed ELSE One
    ELSE LET original_length == d[idx].audio_length
             target_time == TargetTime(d, idx, cfg.mode)
         IN IF original_length > target_time
            THEN ClampToLimit(<<original_length, target_time>>, cfg.limit)
            ELSE One

\* a plausible slip: the tempo filter is run whatever the speed
SignificantAlways(speed) == TRUE

\* abs(target_speed - 1.0) > 1e-3
Significant(speed) == 1000 * Abs(speed[1] - speed[2]) > speed[2]

\* safe_speed = max(0.5, min(target_speed, 4.0))
SafeSpeed(target_speed) ==
    LET capped == IF RatLess(SafeHigh, target_speed) THEN SafeHigh ELSE target_speed
    IN IF RatLess(capped, SafeLow) THEN SafeLow ELSE capped

\* the length of a clip after the atempo filter ran on it, as _audio_length
\* reports it: int(duration_seconds * 1000)
AdjustedLength(length, safe_speed) == (length * safe_speed[2]) \div safe_speed[1]

TempoOutcomes == {"ok", "ffmpeg_error", "measure_error"}

\* one turn of the loop of _process_timing; oc is how _adjust_tempo and the
\* re-measurement end if they are reached
ProcessEntry(d, files, idx, cfg, oc) ==
    LET original_length == d[idx].audio_length
        target_speed == TargetSpeed(d, idx, cfg)
        safe_speed == SafeSpeed(target_speed)
        untouched == [audio_length |-> original_length, clip |-> files[idx],
                      applied |-> One, out |-> "none"]
    IN IF original_length = 0 THEN untouched
       ELSE IF ~Significant(target_speed) THEN untouched
       ELSE IF oc = "ffmpeg_error"
            THEN [untouched EXCEPT !.out = oc]
       ELSE IF oc = "measure_error"
            THEN [audio_length |-> original_length,
                  clip |-> AdjustedLength(files[idx], safe_speed),
                  applied |-> safe_speed, out |-> oc]
       ELSE [audio_length |-> AdjustedLength(files[idx], safe_speed),
             clip |-> AdjustedLength(files[idx], safe_speed),
             applied |-> safe_speed, out |-> oc]

\* the subtitle files of the synthesis runs: starts in order, each entry
\* lasting 2 s or having end = start
RunSrtFiles(most) ==
    {f \in AllSrtFiles :
        /\ Len(f) >= 1
        /\ Len(f) <= most
        /\ \A i \in 1..(Len(f) - 1) :
               ConvertTimeToIntmil(f[i].start) <= ConvertTimeToIntmil(f[i + 1].start)
        /\ \A i \in 1..Len(f) :
               ConvertTimeToIntmil(f[i].end) - ConvertTimeToIntmil(f[i].start)
                   \in {0, 2000}}

InitTempo ==
    /\ OtherIdle
    /\ pc = "parse"
    /\ BatchIdle
    /\ RescaleIdle
    /\ RenderIdle
    /\ TrackIdle
    /\ srt \in RunSrtFiles(MaxTempoEntries)
    /\ data = <<>>
    /\ clip = <<>>
    /\ tempo \in TempoConfigs
    /\ shift = NoShift
    /\ applied_speed = <<>>
    /\ tempo_out = <<>>
    /\ runs = 0
    /\ before = <<>>
    /\ error = "None"

\* the exception of the TTS engine is logged and the run goes on
GenerateSwallowing ==
    /\ pc = "synth"
    /\ \E lens \in [1..Len(data) -> AudioLengths] :
       \E k \in {i \in 1..(Len(data) + 1) : i > Len(data) \/ ~EmptyText(data[i].text)} :
        /\ pc' = "timing"
        /\ data' = GenerateAudioSegmentsFailing(data, lens, k)
        /\ clip' = [i \in 1..(k - 1) |-> data'[i].audio_length]
        /\ tts_calls' = TtsCalls(data, k)
        /\ tts_log' = TtsLog(data, k)
        /\ applied_speed' = [i \in 1..Len(data) |-> One]
        /\ tempo_out' = [i \in 1..Len(data) |-> "none"]
    /\ UNCHANGED <<batchVars, rescaleVars, renderVars, syncVars, appVars, delayVars, srt, tempo, shift, runs, before, error,
                   strict_timing, load, base_audio, overlaid, output>>

\* convert_to_audio up to the end of _generate_audio_segments
Generate ==
    /\ pc = "synth"
    /\ IF data = <<>> \/ ~ValidTempo(tempo)
       THEN /\ pc' = "failed"
            /\ error' = "ValueError"
            /\ UNCHANGED <<data, clip, applied_speed, tempo_out>>
            /\ UNCHANGED <<tts_calls, tts_log>>
       ELSE \E lens \in [1..Len(data) -> AudioLengths] :
            \/ /\ pc' = "timing"
               /\ data' = GenerateAudioSegments(data, lens)
               /\ clip' = [i \in 1..Len(data) |-> data'[i].audio_length]
               /\ applied_speed' = [i \in 1..Len(data) |-> One]
               /\ tempo_out' = [i \in 1..Len(data) |-> "none"]
               /\ tts_calls' = TtsCalls(data, Len(data))
               /\ tts_log' = TtsLog(data, Len(data))
               /\ error' = error
            \/ \E k \in {i \in 1..Len(data) : ~EmptyText(data[i].text)} :
               /\ pc' = "failed"
               /\ error' = "RuntimeError"
               /\ data' = GenerateAudioSegmentsFailing(data, lens, k)
               /\ clip' = [i \in 1..(k - 1) |-> data'[i].audio_length]
               /\ tts_calls' = TtsCalls(data, k)
               /\ tts_log' = TtsLog(data, k)
               /\ UNCHANGED <<applied_speed, tempo_out>>
    /\ UNCHANGED <<batchVars, rescaleVars, renderVars, syncVars, appVars, delayVars, srt, tempo, shift, runs, before,
                   strict_timing, load, base_audio, overlaid, output>>

\* _process_timing(data, temp_folder, tempo_mode, tempo_speed, tempo_limit)
ProcessTiming ==
    /\ pc = "timing"
    /\ runs < MaxTempoRuns
    /\ runs' = runs + 1
    /\ before' = data
    /\ IF tempo.mode = "None"
       THEN UNCHANGED <<data, clip, applied_speed, tempo_out>>
       ELSE \E ocs \in [1..Len(data) -> TempoOutcomes] :
            LET step == [i \in 1..Len(data) |-> ProcessEntry(data, clip, i, tempo, ocs[i])]
            IN /\ data' = [i \in 1..Len(data) |->
                              [data[i] EXCEPT !.audio_length = step[i].audio_length]]
               /\ clip' = [i \in 1..Len(data) |-> step[i].clip]
               /\ applied_speed' = [i \in 1..Len(data) |-> step[i].applied]
               /\ tempo_out' = [i \in 1..Len(data) |-> step[i].out]
    /\ UNCHANGED <<pc, batchVars, rescaleVars, renderVars, trackVars, syncVars, appVars, delayVars, srt, tempo, shift, error>>

NextTempo == Subtitle \/ Generate \/ ProcessTiming

SpecTempo == InitTempo /\ [][NextTempo]_vars

\* the overflow the shifter computes for an entry: audio_length - sub_time
Overflow(e) == e.audio_length - Max(1, e.sub_time)

RatEq(a, b) == a[1] * b[2] = b[1] * a[2]
RatMin(a, b) == IF RatLess(b, a) THEN b ELSE a

TempoPassDone == pc = "timing" /\ runs >= 1

\* C2 as stated: after a tempo pass run with a tempo_limit L, no segment was
\* given a speed above L, in any of the modes all, overflow and precise.
C2_SpeedWithinLimitAnyMode ==
    (TempoPassDone /\ tempo.limit # NoneSpeed) =>
        \A i \in 1..Len(data) : ~RatLess(tempo.limit, applied_speed[i])

\* C2 amended: in the modes overflow and precise no segment is given a speed
\* above L, nor above 1.0 when L is below 1.0; the mode all does not look at L.
C2_SpeedWithinLimitOverflowPrecise ==
    (TempoPassDone /\ tempo.limit # NoneSpeed /\ tempo.mode \in {"overflow", "precise"}) =>
        \A i \in 1..Len(data) :
            ~RatLess(IF RatLess(tempo.limit, One) THEN One ELSE tempo.limit,
                     applied_speed[i])

\* a segment that needed more than the limit was sped up by exactly the limit
C2_Witness ==
    /\ TempoPassDone
    /\ tempo.mode = "overflow"
    /\ tempo.limit = <<2, 1>>
    /\ \E i \in 1..Len(data) :
           /\ RatLess(tempo.limit, <<before[i].audio_length, TargetTime(before, i, "overflow")>>)
           /\ tempo_out[i] = "ok"
           /\ applied_speed[i] = tempo.limit

\* C7: in overflow mode with limit L an entry longer than its slot is sped up
\* by min(length / slot, L), the slot being the sub_time the shifter uses, the
\* last entry included: one entry, slot 2000, length 5000, L = 2.0 ends at
\* 2500 ms with 500 ms of overflow left for the shifter.
C7_OverflowSpeedUsesSlot ==
    (TempoPassDone /\ runs = 1 /\ tempo.mode = "overflow" /\ tempo.limit # NoneSpeed) =>
        \A i \in 1..Len(data) :
            (before[i].audio_length > before[i].sub_time /\ tempo_out[i] \in {"none", "ok"}) =>
                LET wanted == RatMin(<<before[i].audio_length, before[i].sub_time>>,
                                     tempo.limit)
                IN /\ RatEq(applied_speed[i], wanted)
                   /\ data[i].audio_length
                          = (before[i].audio_length * wanted[2]) \div wanted[1]
                   /\ (before[i].sub_time = 2000 /\ before[i].audio_length = 5000
                           /\ tempo.limit = <<2, 1>>) =>
                          (data[i].audio_length = 2500 /\ Overflow(data[i]) = 500)

\* every entry of the timeline is within its target already
AllFit(d, tempo_mode) ==
    \A i \in 1..Len(d) : d[i].audio_length <= TargetTime(d, i, tempo_mode)

\* C8: a tempo pass in overflow or precise mode over a timeline whose segments
\* all fit their target changes nothing: no tempo call, speed 1.0, same lengths.
C8_ResolvedTimelineUntouched ==
    (TempoPassDone /\ tempo.mode \in {"overflow", "precise"}
        /\ AllFit(before, tempo.mode)) =>
        /\ data = before
        /\ \A i \in 1..Len(data) :
               /\ tempo_out[i] = "none"
               /\ applied_speed[i] = One
               /\ clip[i] = data[i].audio_length

\* the second pass over a timeline that the first pass had to compress
C8_Witness ==
    /\ TempoPassDone
    /\ runs = 2
    /\ tempo.mode = "overflow"
    /\ AllFit(before, "overflow")
    /\ \E i \in 1..Len(data) : before[i].audio_length \notin AudioLengths
    /\ data = before

----------------------------------------------------------------------------
(* Overflow shifter *)

\* a parsed shift limit of None
NoLimit == -1
\* the overlap the strict policies tolerate, in ms
Tolerance == 10

IntLimit(n) == [kind |-> "int", number |-> n, suffix |-> ""]
StrLimit(n, suffix) == [kind |-> "str", number |-> n, suffix |-> suffix]

\* the shift_limit arguments of the sample runs: None, 1000, '1s', '1000ms'
ShiftLimits == {NoShift.limit, IntLimit(1000), StrLimit(1, "s"), StrLimit(1000, "ms")}
ShiftModes == {"right", "left", "interpose", "left-overlap", "interpose-overlap"}
ShiftConfigs == {[mode |-> mo, limit |-> li] : mo \in ShiftModes, li \in ShiftLimits}

\* _parse_shift_limit: a string is tested for the suffix 's' first, so 'Xms'
\* reaches float('Xm'), which raises ValueError, and the limit becomes None
ParseShiftLimit(limit) ==
    IF limit.kind = "None" THEN NoLimit
    ELSE IF limit.kind = "int" THEN Max(0, limit.number)
    ELSE IF limit.suffix = "s" THEN Max(0, limit.number * 1000)
    ELSE IF limit.suffix = "ms" THEN NoLimit
    ELSE Max(0, limit.number)

\* min(overflow, limit) if limit is not None else overflow
RightActualShiftUnbounded(shift_needed, limit) == shift_needed

RightActualShift(shift_needed, limit) ==
    IF limit # NoLimit THEN Min(shift_needed, limit) ELSE shift_needed

\* the shift of the latest overflow alone, not the running total
RightAccumulateReset(total_shift_applied, actual_shift) == actual_shift

\* total_shift_applied += actual_shift
RightAccumulate(total_shift_applied, actual_shift) == total_shift_applied + actual_shift

\* the loop of _right_shift from entry i on
RECURSIVE RightFrom(_, _, _, _)
RightFrom(d, i, total_shift_applied, limit) ==
    IF i > Len(d) THEN <<>>
    ELSE LET moved == IF total_shift_applied > 0
                      THEN [d[i] EXCEPT !.start_time = @ + total_shift_applied,
                                        !.end_time = @ + total_shift_applied]
                      ELSE d[i]
             overflow == Overflow(moved)
             total == IF overflow <= 0 THEN total_shift_applied
                      ELSE RightAccumulate(total_shift_applied,
                                           RightActualShift(overflow, limit))
         IN <<moved>> \o RightFrom(d, i + 1, total, limit)

\* _right_shift
RightShift(d, limit) == [data |-> RightFrom(d, 1, 0, limit), error |-> "None"]

\* the shift limit is not applied to the overflow
MaxShiftUnlimited(overflow, limit) == overflow

\* max_shift of _left_shift and _interpose_shift
MaxShift(overflow, limit) == IF limit # NoLimit THEN Min(overflow, limit) ELSE overflow

\* the inner loop of _left_shift from entry j down: the time taken from the
\* idle part of the slots of the entries before the current one
RECURSIVE Steal(_, _, _)
Steal(d, j, shift_needed) ==
    IF j < 1 THEN 0
    ELSE LET space_available == Max(1, d[j].sub_time) - d[j].audio_length
         IN IF space_available <= 0 THEN Steal(d, j - 1, shift_needed)
            ELSE LET steal_amount == Min(shift_needed, space_available)
                 IN IF shift_needed - steal_amount <= 0 THEN steal_amount
                    ELSE steal_amount + Steal(d, j - 1, shift_needed - steal_amount)

\* one turn of the outer loop of _left_shift: the entry moved, and what is left
LeftEntry(d, i, limit) ==
    LET overflow == Overflow(d[i])
        max_shift == MaxShift(overflow, limit)
        shift_achieved == Steal(d, i - 1, max_shift)
    IN IF overflow <= 0 THEN [entry |-> d[i], remaining_overflow |-> 0]
       ELSE [entry |-> [d[i] EXCEPT !.start_time = @ - shift_achieved,
                                    !.end_time = @ - shift_achieved],
             remaining_overflow |-> max_shift - shift_achieved]

\* _left_shift: every entry is moved by what it could take; the strict policy
\* raises at the first entry left with more than the tolerance
LeftShift(d, limit, allow_overlap) ==
    LET step == [i \in 1..Len(d) |-> LeftEntry(d, i, limit)]
    IN IF ~allow_overlap /\ \E i \in 1..Len(d) : step[i].remaining_overflow > Tolerance
       THEN [data |-> d, error |-> "RuntimeError"]
       ELSE [data |-> [i \in 1..Len(d) |-> step[i].entry], error |-> "None"]

\* one turn of the loop of _interpose_shift; shift_from_prev may be a float
\* ending in .5, so it is kept doubled
InterposeEntry(d, i, limit) ==
    LET overflow == Overflow(d[i])
        max_shift == MaxShift(overflow, limit)
        prev_available == IF i > 1
                          THEN Max(0, Max(1, d[i - 1].sub_time) - d[i - 1].audio_length)
                          ELSE 0
        twice_from_prev == Min(max_shift, 2 * prev_available)
        twice_start == 2 * d[i].start_time + d[i].half_ms - twice_from_prev
        twice_end == 2 * d[i].end_time + d[i].half_ms - twice_from_prev
    IN IF overflow <= 0 THEN [entry |-> d[i], twice_remaining |-> 0]
       ELSE [entry |-> IF twice_from_prev > 0
                       THEN [d[i] EXCEPT !.start_time = twice_start \div 2,
                                         !.end_time = twice_end \div 2,
                                         !.half_ms = twice_start % 2]
                       ELSE d[i],
             twice_remaining |-> 2 * max_shift - twice_from_prev]

\* _interpose_shift
InterposeShift(d, limit, allow_overlap) ==
    LET step == [i \in 1..Len(d) |-> InterposeEntry(d, i, limit)]
    IN IF ~allow_overlap /\ \E i \in 1..Len(d) : step[i].twice_remaining > 2 * Tolerance
       THEN [data |-> d, error |-> "RuntimeError"]
       ELSE [data |-> [i \in 1..Len(d) |-> step[i].entry], error |-> "None"]

\* the '-overlap' entries of shift_modes_map without allow_overlap=True
ShifterOverlapStrict(d, shift_mode, shift_limit) ==
    LET limit_ms == ParseShiftLimit(shift_limit)
    IN IF shift_mode = "right" THEN RightShift(d, limit_ms)
       ELSE IF shift_mode \in {"left", "left-overlap"} THEN LeftShift(d, limit_ms, FALSE)
       ELSE InterposeShift(d, limit_ms, FALSE)

\* _shifter(data, mode, shift_limit)
Shifter(d, shift_mode, shift_limit) ==
    LET limit_ms == ParseShiftLimit(shift_limit)
    IN IF shift_mode = "right" THEN RightShift(d, limit_ms)
       ELSE IF shift_mode = "left" THEN LeftShift(d, limit_ms, FALSE)
       ELSE IF shift_mode = "left-overlap" THEN LeftShift(d, limit_ms, TRUE)
       ELSE IF shift_mode = "interpose" THEN InterposeShift(d, limit_ms, FALSE)
       ELSE InterposeShift(d, limit_ms, TRUE)

InitShift ==
    /\ OtherIdle
    /\ pc = "parse"
    /\ BatchIdle
    /\ RescaleIdle
    /\ RenderIdle
    /\ TrackIdle
    /\ srt \in RunSrtFiles(MaxEntries)
    /\ data = <<>>
    /\ clip = <<>>
    /\ tempo = NoTempo
    /\ shift \in ShiftConfigs
    /\ applied_speed = <<>>
    /\ tempo_out = <<>>
    /\ runs = 0
    /\ before = <<>>
    /\ error = "None"

\* convert_to_audio, step 3: data = self._shifter(data, shift_mode, shift_limit)
Shift ==
    /\ pc = "timing"
    /\ shift.mode # "None"
    /\ LET shifted == Shifter(data, shift.mode, shift.limit)
       IN /\ before' = data
          /\ error' = shifted.error
          /\ pc' = IF shifted.error = "None" THEN "shifted" ELSE "failed"
          /\ data' = IF shifted.error = "None" THEN shifted.data ELSE data
    /\ UNCHANGED <<batchVars, rescaleVars, renderVars, trackVars, syncVars, appVars, delayVars, srt, clip, tempo, shift, applied_speed,
                   tempo_out, runs>>

NextShift == Subtitle \/ Generate \/ Shift

SpecShift == InitShift /\ [][NextShift]_vars

LimitMs == ParseShiftLimit(shift.limit)

\* twice the distance an entry's start was moved by the shifter
TwiceMoved(i) ==
    2 * (data[i].start_time - before[i].start_time) + data[i].half_ms - before[i].half_ms

\* C3: after the shifter ran with a shift limit L, under any policy, no entry's
\* start differs from its start before shifting by more than L.
C3_ShiftWithinLimit ==
    (pc = "shifted" /\ LimitMs # NoLimit) =>
        \A i \in 1..Len(data) : Abs(TwiceMoved(i)) <= 2 * LimitMs

\* the overflow of entry j that the Right policy passes on, bounded by the limit
BoundedOverflow(d, j, limit) ==
    LET overflow == d[j].audio_length - d[j].sub_time
    IN IF overflow <= 0 THEN 0
       ELSE IF limit = NoLimit THEN overflow
       ELSE IF overflow <= limit THEN overflow ELSE limit

RECURSIVE SumBoundedBefore(_, _, _)
SumBoundedBefore(d, i, limit) ==
    IF i <= 1 THEN 0
    ELSE SumBoundedBefore(d, i - 1, limit) + BoundedOverflow(d, i - 1, limit)

\* C9: under the Right policy every entry's start and end grow by exactly the
\* sum of the limit-bounded overflows of the entries before it; one entry
\* overflowing by 500 ms under a limit of 1000 ms delays all later ones by 500.
C9_RightShiftIsPrefixSum ==
    (pc = "shifted" /\ shift.mode = "right") =>
        \A i \in 1..Len(data) :
            /\ data[i].start_time - before[i].start_time
                   = SumBoundedBefore(before, i, LimitMs)
            /\ data[i].end_time - before[i].end_time
                   = SumBoundedBefore(before, i, LimitMs)
            /\ data[i].audio_length = before[i].audio_length
            /\ data[i].sub_time = before[i].sub_time

\* the first of three entries overflows by 500 ms under a limit of 1000 ms
C9_Witness ==
    /\ pc = "shifted"
    /\ shift.mode = "right"
    /\ LimitMs = 1000
    /\ Len(data) = 3
    /\ Overflow(before[1]) = 500
    /\ Overflow(before[2]) <= 0
    /\ data[1].start_time = before[1].start_time
    /\ data[2].start_time = before[2].start_time + 500
    /\ data[3].start_time = before[3].start_time + 500

NoSpeechOverlap ==
    \A i \in 1..(Len(data) - 1) :
        data[i].start_time + data[i].audio_length <= data[i + 1].start_time

\* C10 as stated: after the Right policy, under every shift limit, no entry's
\* speech reaches past the start of its successor.
C10_RightResolvesFully ==
    (pc = "shifted" /\ shift.mode = "right") => NoSpeechOverlap

\* C10 amended: that holds when no entry's overflow exceeds the shift limit (or
\* none is set) and the start times are strictly increasing.
C10_RightResolvesWithinLimit ==
    (/\ pc = "shifted"
     /\ shift.mode = "right"
     /\ \A i \in 1..(Len(before) - 1) : before[i].start_time < before[i + 1].start_time
     /\ LimitMs # NoLimit => \A i \in 1..Len(before) : Overflow(before[i]) <= LimitMs)
        => NoSpeechOverlap

\* two entries in a row overflow, within the limit, and all speech still fits
C10_Witness ==
    /\ pc = "shifted"
    /\ shift.mode = "right"
    /\ LimitMs = 1000
    /\ Len(data) = 3
    /\ \A i \in 1..2 : before[i].start_time < before[i + 1].start_time
    /\ Overflow(before[1]) = 500
    /\ Overflow(before[2]) = 500
    /\ Overflow(before[3]) <= 1000
    /\ data[3].start_time = before[3].start_time + 1000
    /\ NoSpeechOverlap

----------------------------------------------------------------------------
(* Strict and lenient shift policies *)

ShiftDone == pc \in {"shifted", "failed"} /\ shift.mode # "None" /\ before # <<>>

\* the idle time of the slots of the entries before entry i
RECURSIVE IdleBefore(_, _)
IdleBefore(d, i) ==
    IF i <= 1 THEN 0
    ELSE IdleBefore(d, i - 1)
         + (IF d[i - 1].sub_time > d[i - 1].audio_length
            THEN d[i - 1].sub_time - d[i - 1].audio_length ELSE 0)

\* what is left of want ms of entry i after the idle time before it is used up
LeftUnabsorbed(d, i, want) ==
    IF want <= 0 THEN 0
    ELSE IF want > IdleBefore(d, i) THEN want - IdleBefore(d, i) ELSE 0

\* the part of an entry's overflow the shift limit lets the policy work on
WithinLimit(overflow, limit) ==
    IF limit # NoLimit /\ limit < overflow THEN limit ELSE overflow

StrictOf(shift_mode) == IF shift_mode = "left-overlap" THEN "left" ELSE "interpose"

SameTimes(d, e) ==
    /\ Len(d) = Len(e)
    /\ \A i \in 1..Len(d) :
           /\ d[i].start_time = e[i].start_time
           /\ d[i].end_time = e[i].end_time
           /\ d[i].half_ms = e[i].half_ms

\* C12: 'left-overlap' and 'interpose-overlap' never raise, and where the
\* strict policy succeeds on the same timeline and limit they give the same
\* start and end times.
C12_OverlapVariantsNeverRaise ==
    (ShiftDone /\ shift.mode \in {"left-overlap", "interpose-overlap"}) =>
        /\ pc = "shifted"
        /\ error = "None"
        /\ LET strict == Shifter(before, StrictOf(shift.mode), shift.limit)
           IN strict.error = "None" => SameTimes(data, strict.data)

\* 'left-overlap' returned a timeline on which 'left' raises, and moved an entry
C12_Witness ==
    /\ ShiftDone
    /\ shift.mode = "left-overlap"
    /\ pc = "shifted"
    /\ Shifter(before, "left", shift.limit).error = "RuntimeError"
    /\ \E i \in 1..Len(data) : data[i].start_time < before[i].start_time

----------------------------------------------------------------------------
(* Audio track assembler *)

\* the silence added after the last clip, in ms
Buffer == 1000
\* the overlap with the previously placed segment that is let through
OverlapTolerance == 10

\* what opening a clip gives: the clip, or an exception from from_file (the
\* file itself is there: _generate_audio_segments checked it)
LoadOutcomes == {"ok", "error"}

\* total_duration_ms: max(start_time + audio_length) + 1000
RECURSIVE MaxReqTime(_, _)
MaxReqTime(d, i) ==
    IF i = 1 THEN d[1].start_time + d[1].audio_length
    ELSE Max(MaxReqTime(d, i - 1), d[i].start_time + d[i].audio_length)

TotalDuration(d) == MaxReqTime(d, Len(d)) + Buffer

\* the overlap check is never acted on
SkippedForOverlapNever(overlap_ms, strict) == FALSE

\* if overlap_ms > 10: if strict_timing: continue
SkippedForOverlap(overlap_ms, strict) == overlap_ms > OverlapTolerance /\ strict

\* the whole clip is overlaid whatever room is left
LengthToOverlayWhole(start_position, segment_length, total) == segment_length

\* len(segment_to_overlay): the clip, cut to what is left of the base track
LengthToOverlay(start_position, segment_length, total) ==
    IF start_position + segment_length > total
    THEN total - start_position
    ELSE segment_length

\* the loop of _build_final_audio from entry i on
RECURSIVE OverlayFrom(_, _, _, _, _, _, _)
OverlayFrom(d, files, how, i, last_segment_end_time, total, strict) ==
    IF i > Len(d) THEN [overlaid |-> <<>>, error |-> "None"]
    ELSE LET start_time_ms == d[i].start_time
             audio_length_ms == d[i].audio_length
             overlap_ms == last_segment_end_time - start_time_ms
             start_position == Max(0, start_time_ms)
             to_overlay == LengthToOverlay(start_position, files[i], total)
         IN IF how[i] = "missing"
            THEN OverlayFrom(d, files, how, i + 1, last_segment_end_time, total, strict)
            ELSE IF audio_length_ms <= 0
            THEN OverlayFrom(d, files, how, i + 1, last_segment_end_time, total, strict)
            ELSE IF SkippedForOverlap(overlap_ms, strict)
            THEN OverlayFrom(d, files, how, i + 1, last_segment_end_time, total, strict)
            ELSE IF how[i] = "error"
            THEN IF strict THEN [overlaid |-> <<>>, error |-> "RuntimeError"]
                 ELSE OverlayFrom(d, files, how, i + 1,
                                  Max(last_segment_end_time, start_position + audio_length_ms),
                                  total, strict)
            ELSE IF to_overlay <= 0
            THEN OverlayFrom(d, files, how, i + 1, last_segment_end_time, total, strict)
            ELSE LET rest == OverlayFrom(d, files, how, i + 1,
                                         start_position + to_overlay, total, strict)
                 IN [overlaid |-> <<[entry |-> i, position |-> start_position,
                                     length |-> to_overlay]>> \o rest.overlaid,
                     error |-> rest.error]

\* _build_final_audio(data, temp_folder, strict_timing)
BuildFinalAudioOf(d, files, how, strict) ==
    OverlayFrom(d, files, how, 1, 0, TotalDuration(d), strict)

\* the tempo settings of the assembly runs: none, or 'overflow' with limit 0.75
TrackTempos == {NoTempo, [mode |-> "overflow", speed |-> NoneSpeed, limit |-> <<3, 4>>]}

\* the subtitle files of the assembly runs: every entry lasts 2 s
TrackSrtFiles ==
    {f \in RunSrtFiles(MaxTrackEntries) :
        \A i \in 1..Len(f) :
            ConvertTimeToIntmil(f[i].end) - ConvertTimeToIntmil(f[i].start) = 2000}

InitTrack ==
    /\ OtherIdle
    /\ pc = "parse"
    /\ BatchIdle
    /\ RescaleIdle
    /\ RenderIdle
    /\ srt \in TrackSrtFiles
    /\ data = <<>>
    /\ clip = <<>>
    /\ tempo \in TrackTempos
    /\ tempo.mode # "None" => Len(srt) <= MaxTempoEntries
    /\ shift = NoShift
    /\ applied_speed = <<>>
    /\ tempo_out = <<>>
    /\ runs = 0
    /\ before = <<>>
    /\ error = "None"
    /\ tts_calls = 0
    /\ tts_log = <<>>
    /\ strict_timing \in BOOLEAN
    /\ load = <<>>
    /\ base_audio = 0
    /\ overlaid = <<>>
    /\ output = "None"

\* convert_to_audio, step 4: final_audio = self._build_final_audio(...)
BuildFinalAudio ==
    /\ \/ pc = "timing" /\ runs = 1 /\ shift.mode = "None"
       \/ pc = "shifted"
    /\ \E how \in [1..Len(data) -> LoadOutcomes] :
        LET built == BuildFinalAudioOf(data, clip, how, strict_timing)
        IN /\ load' = how
           /\ error' = built.error
           /\ pc' = IF built.error = "None" THEN "built" ELSE "failed"
           /\ base_audio' = IF built.error = "None" THEN TotalDuration(data) ELSE 0
           /\ overlaid' = built.overlaid
    /\ UNCHANGED <<batchVars, rescaleVars, renderVars, syncVars, appVars, delayVars, srt, data, clip, tempo, shift, applied_speed,
                   tempo_out, runs, before, tts_calls, tts_log, strict_timing, output>>

\* convert_to_audio, step 5: final_audio.export(output_path, format="wav")
Export ==
    /\ pc = "built"
    /\ \/ pc' = "exported" /\ output' = "wav" /\ error' = error
       \/ pc' = "failed" /\ output' = output /\ error' = "RuntimeError"
    /\ UNCHANGED <<batchVars, rescaleVars, renderVars, syncVars, appVars, delayVars, srt, data, clip, tempo, shift, applied_speed,
                   tempo_out, runs, before, tts_calls, tts_log, strict_timing, load,
                   base_audio, overlaid>>

NextTrack == Subtitle \/ Generate \/ ProcessTiming \/ BuildFinalAudio \/ Export

SpecTrack == InitTrack /\ [][NextTrack]_vars

BuildDone == load # <<>>
Built == BuildDone /\ base_audio > 0

Placed == {overlaid[k].entry : k \in 1..Len(overlaid)}

\* where the segment placed last before entry i ends, 0 if there is none
PlacedEndBefore(i) ==
    LET earlier == {k \in 1..Len(overlaid) : overlaid[k].entry < i}
    IN IF earlier = {} THEN 0
       ELSE LET k == CHOOSE k \in earlier : \A j \in earlier : j <= k
            IN overlaid[k].position + overlaid[k].length

\* an entry the assembler has a readable, non-empty clip for
Usable(i) == load[i] = "ok" /\ data[i].audio_length > 0

----------------------------------------------------------------------------
(* Failures of the synthesis and tempo steps *)

\* synthesis was begun and some entry is without a clip
ClipMissing == pc \notin {"parse", "synth"} /\ tts_calls >= 1 /\ Len(clip) < Len(data)

\* C15: when the engine fails on entry k the run has ended with an error, the
\* engine was not called for any entry after k, and no tempo pass, shift,
\* assembly or export was made.
C15_SynthesisFailureIsFatal ==
    ClipMissing =>
        /\ pc = "failed"
        /\ error = "RuntimeError"
        /\ tts_calls = TtsCalls(data, Len(clip) + 1)
        /\ \A i \in (Len(clip) + 1)..Len(data) : data[i].audio_length = 0
        /\ runs = 0
        /\ before = <<>>
        /\ \A i \in 1..Len(data) :
               /\ data[i].start_time = ExtractDataSrt(srt)[i].start_time
               /\ data[i].end_time = ExtractDataSrt(srt)[i].end_time
        /\ load = <<>>
        /\ base_audio = 0
        /\ overlaid = <<>>
        /\ output = "None"

\* the engine failed on the second of three entries
C15_Witness ==
    /\ ClipMissing
    /\ pc = "failed"
    /\ Len(data) = 3
    /\ Len(clip) = 1
    /\ tts_calls = 2
    /\ data[1].audio_length > 0

\* C16: after a tempo pass in which the tempo step failed for an entry, the
\* run goes on and that entry has the clip and the recorded length it had
\* before the pass.
C16_TempoFailureKeepsSegment ==
    (TempoPassDone /\ runs = 1) =>
        \A i \in 1..Len(data) :
            tempo_out[i] \in {"ffmpeg_error", "measure_error"} =>
                /\ data[i].audio_length = before[i].audio_length
                /\ clip[i] = before[i].audio_length

\* C29: whenever the clips exist (after synthesis and after every tempo pass),
\* the length recorded for each entry is the length of its clip file, whatever
\* the outcome of the tempo step was.
C29_RecordedLengthIsClipLength ==
    (pc = "timing") =>
        /\ Len(clip) = Len(data)
        /\ \A i \in 1..Len(data) : data[i].audio_length = clip[i]

\* C26: when the strict Left policy returns without a shift limit, no entry's
\* speech reaches more than 10 ms past the start of the entry after it.
C26_LeftStrictLeavesNoOverlap ==
    (pc = "shifted" /\ shift.mode = "left" /\ LimitMs = NoLimit) =>
        \A i \in 1..(Len(data) - 1) :
            data[i].start_time + data[i].audio_length <= data[i + 1].start_time + Tolerance

\* the shifter returned a timeline for an input that was ordered by start
ShiftedOrdered == pc = "shifted" /\ shift.mode # "None" /\ SortedByStart(before)

\* C27: for every policy and every input ordered by start, the timeline the
\* shifter returns is ordered by start, no start is negative, and every entry
\* keeps its duration (end - start), its clip length and its slot.
C27_ShifterKeepsOrder ==
    ShiftedOrdered =>
        /\ Len(data) = Len(before)
        /\ \A i \in 1..(Len(data) - 1) :
               2 * data[i].start_time + data[i].half_ms
                   <= 2 * data[i + 1].start_time + data[i + 1].half_ms
        /\ \A i \in 1..Len(data) :
               /\ data[i].start_time >= 0
               /\ data[i].end_time - data[i].start_time
                      = before[i].end_time - before[i].start_time
               /\ data[i].audio_length = before[i].audio_length
               /\ data[i].sub_time = before[i].sub_time

\* the parts of C27 other than the order of the starts
C27_ShifterKeepsEntries ==
    ShiftedOrdered =>
        /\ Len(data) = Len(before)
        /\ \A i \in 1..Len(data) :
               /\ data[i].start_time >= 0
               /\ data[i].end_time - data[i].start_time
                      = before[i].end_time - before[i].start_time
               /\ data[i].audio_length = before[i].audio_length
               /\ data[i].sub_time = before[i].sub_time

\* the order of the starts after the Right policy
C27_RightKeepsOrder ==
    (ShiftedOrdered /\ shift.mode = "right") => SortedByStart(data)

----------------------------------------------------------------------------
(* Batches *)

RECURSIVE Flatten(_)
Flatten(bs) == IF bs = <<>> THEN <<>> ELSE Head(bs) \o Flatten(Tail(bs))

\* the batches are non-empty, contiguous, disjoint, in order, cover the frame
\* list, and all but possibly the last have the given size
PartitionsBy(size) ==
    /\ Flatten(batches) = images
    /\ \A b \in 1..Len(batches) : Len(batches[b]) >= 1
    /\ \A b \in 1..(Len(batches) - 1) : Len(batches[b]) = size
    /\ \A b \in 1..Len(batches) : Len(batches[b]) <= size
    /\ DOMAIN future = 0..(Len(batches) - 1)
    /\ Len(images) = 120 =>
           /\ Len(batches) = 3
           /\ Len(batches[1]) = 50 /\ Len(batches[2]) = 50 /\ Len(batches[3]) = 20

\* C17 as stated: for every n >= 1 the frames are cut into batches of size
\* max(n div 10, 50), from either entry point.
C17_PartitionByTenthOrFifty ==
    (pc = "render" /\ Len(images) >= 1) =>
        PartitionsBy(IF Len(images) \div 10 > 50 THEN Len(images) \div 10 ELSE 50)

\* C17 amended: process_images cuts by max(n div 10, 50), generate_video by
\* the batch_size setting (50 unless configured); either way the batches are
\* non-empty, contiguous, disjoint, in order and full except possibly the last.
C17_PartitionBySizeOfEntryPoint ==
    (pc = "render" /\ Len(images) >= 1) =>
        PartitionsBy(IF mode = "process_images" /\ Len(images) >= 510
                     THEN Len(images) \div 10 ELSE 50)

\* 515 frames through process_images: ten batches of 51 and one of 5
C17_Witness ==
    /\ pc = "render"
    /\ mode = "process_images"
    /\ Len(images) = 515
    /\ Len(batches) = 11
    /\ Len(batches[1]) = 51
    /\ Len(batches[11]) = 5

\* C20: a batch with an unreadable frame at any position, the first included,
\* still yields a segment when the encoder succeeds, with one list entry per
\* frame and the blank image in place of every unreadable frame.
C20_BlankFillerForUnreadableFrame ==
    (/\ pc = "batch_done"
     /\ batch # <<>>
     /\ \A i \in 1..Len(batch) : batch[i].kind \in {"good", "missing", "nopath"}
     /\ \E i \in 1..Len(batch) : Unreadable(batch[i].kind)) =>
        /\ Len(list_file) = Len(batch)
        /\ \A i \in 1..Len(batch) :
               /\ list_file[i].frame = i
               /\ Unreadable(batch[i].kind) <=> list_file[i].file[1] = "blank"
        /\ encoder \in EncoderOutcomes
        /\ encoder = "ok" => rendered = SegmentPath(batch_idx)

Succeeded == {b \in BatchIdx : outcome[b] # None}

\* C18: a batch that fails gives no segment and stops no other batch: when the
\* run has finished every batch was rendered and collected, the segments of
\* the batches that succeeded are all in the list handed to concatenation,
\* and concatenation is reached whenever at least one batch succeeded.
C18_FailedBatchSparesSiblings ==
    (pc = "finished" /\ images # <<>>) =>
        /\ \A b \in BatchIdx : future[b] = "collected"
        /\ \A b \in BatchIdx :
               outcome[b] \in {None, SegmentPath(b)}
        /\ Succeeded # {} =>
               /\ result = "True"
               /\ \A b \in Succeeded :
                      \E i \in 1..Len(concat_list) : concat_list[i] = SegmentPath(b)
               /\ Len(concat_list) = Cardinality(Succeeded)

\* the first of three batches failed, the others are in the list
C18_Witness ==
    /\ pc = "finished"
    /\ NumBatches = 3
    /\ outcome[0] = None
    /\ Succeeded = {1, 2}
    /\ result = "True"
    /\ Len(concat_list) = 2

\* C19: when no batch gives a valid segment (an empty frame list included) the
\* run fails, process_images with False and generate_video with an exception,
\* and no concat list is written for the encoder.
C19_NoValidSegmentsFails ==
    (pc = "finished" /\ Succeeded = {}) =>
        /\ concat_list = <<>>
        /\ mode = "process_images" => result = "False"
        /\ mode = "generate_video" =>
               result = (IF images = <<>> THEN "ValueError" ELSE "RuntimeError")

\* both batches of a run failed
C19_Witness ==
    /\ pc = "finished"
    /\ NumBatches = 2
    /\ \A b \in BatchIdx : future[b] = "collected" /\ outcome[b] = None
    /\ result \in {"False", "RuntimeError"}
    /\ concat_list = <<>>


\* ---------------------------------------------------------------------------
\* Synthesis of the clips
\* ---------------------------------------------------------------------------

\* bodies of the subtitle blocks: words, or white space only
SynthTexts == {"hello", " "}

\* the stamp 00:00:sec,000
Stamp(sec) == [h |-> 0, m |-> 0, s |-> sec, ms |-> 0]

\* subtitle files whose entry i starts at 2(i - 1) s and ends 2 s before, at or
\* 2 s after its start, with any of the bodies; the file without entries is one
SynthSrtFiles ==
    UNION {{SrtFile(n, [i \in 1..n |-> Stamp(2 * (i - 1))],
                       [i \in 1..n |-> Stamp(2 * (i - 1) + off[i])], tx) :
               off \in {o \in [1..n -> {-2, 0, 2}] : n >= 1 => o[1] # -2},
               tx \in [1..n -> SynthTexts]}
           : n \in 0..MaxSynthEntries}

InitSynth ==
    /\ OtherIdle
    /\ pc = "parse"
    /\ BatchIdle
    /\ RescaleIdle
    /\ RenderIdle
    /\ TrackIdle
    /\ srt \in SynthSrtFiles
    /\ data = <<>>
    /\ clip = <<>>
    /\ tempo = NoTempo
    /\ shift = NoShift
    /\ applied_speed = <<>>
    /\ tempo_out = <<>>
    /\ runs = 0
    /\ before = <<>>
    /\ error = "None"

NextSynth == Subtitle \/ Generate

SpecSynth == InitSynth /\ [][NextSynth]_vars

\* the entries with a text, in timeline order
RECURSIVE Spoken(_, _)
Spoken(d, k) ==
    IF k = 0 THEN <<>>
    ELSE IF d[k].text = "" THEN Spoken(d, k - 1)
    ELSE Append(Spoken(d, k - 1), k)

\* the entry at which the loop of _generate_audio_segments stopped
SynthStop == IF pc = "timing" THEN Len(data) ELSE Len(clip) + 1

\* C23: when the synthesis loop has ended, by success or by the failure of one
\* call, the TTS engine has been called once for each entry with a text that the
\* loop reached, in timeline order, and for no entry whose text is empty after
\* trimming, and no call was repeated; each empty entry the loop passed has a
\* silent clip of 10 ms and length_ms = 10
C23_TtsOncePerSpokenEntry ==
    (pc \in {"timing", "failed"} /\ data # <<>>) =>
        /\ tts_log = Spoken(data, SynthStop)
        /\ tts_calls = Len(tts_log)
        /\ \A i, j \in 1..Len(tts_log) : i < j => tts_log[i] < tts_log[j]
        /\ \A i \in 1..Len(clip) :
               data[i].text = "" => (clip[i] = SilenceLength /\ data[i].audio_length = SilenceLength)
        /\ pc = "failed" => (data[SynthStop].text # "" /\ error = "RuntimeError")

C23_Witness ==
    /\ pc = "timing"
    /\ Len(data) = 3
    /\ data[1].text # ""
    /\ data[2].text = ""
    /\ data[3].text # ""
    /\ tts_log = <<1, 3>>
    /\ clip[2] = SilenceLength

\* C24: every entry of the parsed timeline ends after it starts, an end that
\* was not after the start in the file being start + 1, and no entry of the file
\* is dropped for it; a timeline without entries ends the run with a ValueError
\* before any clip is synthesized
C24_EndAfterStartAndEmptyRejected ==
    /\ (pc # "parse") =>
           /\ Len(data) = Len(srt)
           /\ \A i \in 1..Len(data) :
                  /\ data[i].end_time > data[i].start_time
                  /\ (ConvertTimeToIntmil(srt[i].end) <= ConvertTimeToIntmil(srt[i].start))
                         => data[i].end_time = data[i].start_time + 1
    /\ (pc \in {"timing", "failed"} /\ data = <<>>) =>
           (pc = "failed" /\ error = "ValueError" /\ tts_calls = 0 /\ tts_log = <<>> /\ clip = <<>>)

C24_Witness ==
    /\ pc = "timing"
    /\ \E i \in 1..Len(data) :
           /\ ConvertTimeToIntmil(srt[i].end) < ConvertTimeToIntmil(srt[i].start)
           /\ data[i].end_time = data[i].start_time + 1

C24_WitnessEmpty == pc = "failed" /\ srt = <<>> /\ error = "ValueError"


----------------------------------------------------------------------------
(* Audio synchronisation: VideoProcessor.sync_audio_with_video *)

\* abs(video_duration - audio_duration) < 0.1, in ms
SyncTolerance == 100

\* the durations ffmpeg.probe reports for the two files, in ms
VideoDurations == {5000, 10000, 12000, 20000}
AudioTrackDurations == {0, 5000, 9901, 9950, 10000, 10099, 10101, 10500, 20000, 25000}

\* how the ffmpeg run with the atempo filter ends
SyncOutcomes == {"ok", "ffmpeg_error"}

\* the duration of a stream of length ms after atempo with the factor num/den:
\* the filter plays it num/den times as fast
Atempo(length, num, den) == (length * den) \div num

\* speed_factor = video_duration / audio_duration, as <<numerator, denominator>>
SpeedFactor(video, audio) == <<video, audio>>

\* sync_audio_with_video(video_path, audio_path, output_path) for the probed
\* video_duration and audio_duration; oc is how the encoder run ends if it is
\* reached
SyncAudioWithVideo(video, audio, oc) ==
    IF Abs(video - audio) < SyncTolerance
    THEN [returned |-> "True", retimed |-> FALSE, audio_out |-> audio]
    ELSE IF audio = 0
    THEN [returned |-> "False", retimed |-> FALSE, audio_out |-> 0]
    ELSE IF oc = "ffmpeg_error"
    THEN [returned |-> "False", retimed |-> FALSE, audio_out |-> 0]
    ELSE LET speed_factor == SpeedFactor(video, audio)
         IN [returned |-> "True", retimed |-> TRUE,
             audio_out |-> Atempo(audio, speed_factor[1], speed_factor[2])]

InitSync ==
    /\ pc = "sync"
    /\ BatchIdle
    /\ RenderIdle
    /\ RescaleIdle
    /\ AudioIdle
    /\ AppIdle
    /\ DelayIdle
    /\ video_ms \in VideoDurations
    /\ audio_ms \in AudioTrackDurations
    /\ synced = NotSynced

\* one call of sync_audio_with_video
Sync ==
    /\ pc = "sync"
    /\ pc' = "synced"
    /\ \E oc \in SyncOutcomes : synced' = SyncAudioWithVideo(video_ms, audio_ms, oc)
    /\ UNCHANGED <<batchVars, renderVars, rescaleVars, audioVars, trackVars, appVars,
                   delayVars, video_ms, audio_ms>>

NextSync == Sync

SpecSync == InitSync /\ [][NextSync]_vars

C21_RetimedOnlyOutsideTolerance ==
    (pc = "synced") =>
        /\ Abs(video_ms - audio_ms) < SyncTolerance =>
               (synced.returned = "True" /\ ~synced.retimed)
        /\ (Abs(video_ms - audio_ms) >= SyncTolerance /\ synced.returned = "True") =>
               synced.retimed


----------------------------------------------------------------------------
(* Delaying a subtitle file: processors/editSrtFileTime.py *)

\* timecode_to_ms for a timecode with valid components
TimecodeToMs(tc) == tc.h * 3600000 + tc.m * 60000 + tc.s * 1000 + tc.ms

\* ms_to_timecode: negative values are written as 00:00:00,000
MsToTimecode(ms) ==
    LET clamped == Max(ms, 0)
    IN [h |-> clamped \div 3600000,
        m |-> (clamped % 3600000) \div 60000,
        s |-> (clamped % 60000) \div 1000,
        ms |-> clamped % 1000]

\* a plausible slip: the end of the block before is not looked at
NewStartDelayedOnly(has_previous, previous_end_time, orig_start, delay) ==
    Max(orig_start + delay, 0)

\* new_start: previous_end_time is None until a block has been retimed
NewStart(has_previous, previous_end_time, orig_start, delay) ==
    IF has_previous THEN Max(previous_end_time, orig_start + delay)
    ELSE Max(orig_start + delay, 0)

\* a block with fewer than three lines is written as it is
Retimed(block) == block.lines >= 3

\* the loop over the blocks from block i on
RECURSIVE ProcessFrom(_, _, _, _, _)
ProcessFrom(bs, i, delay, has_previous, previous_end_time) ==
    IF i > Len(bs) THEN <<>>
    ELSE IF ~Retimed(bs[i])
    THEN <<bs[i]>> \o ProcessFrom(bs, i + 1, delay, has_previous, previous_end_time)
    ELSE LET orig_start == TimecodeToMs(bs[i].start)
             orig_end == TimecodeToMs(bs[i].end)
             duration == orig_end - orig_start
             new_start == NewStart(has_previous, previous_end_time, orig_start, delay)
             new_end == new_start + duration
         IN <<[bs[i] EXCEPT !.start = MsToTimecode(new_start),
                            !.end = MsToTimecode(new_end)]>>
                \o ProcessFrom(bs, i + 1, delay, TRUE, new_end)

\* process_srt(input_file, delay_ms, output_file): the blocks written
ProcessSrt(bs, delay) == ProcessFrom(bs, 1, delay, FALSE, 0)

\* the delays of the sample calls, in ms
Delays == {-2500, -1000, 0, 1500}

\* the blocks of the sample files: a start at a full second, an end 1 s before,
\* at or 2 s after the start, and a text (three lines) or none (two lines)
SampleBlocks ==
    {[start |-> Stamp(st), end |-> Stamp(st + off), lines |-> n] :
        st \in 0..3, off \in {-1, 0, 2}, n \in {2, 3}}

DelaySrtFiles ==
    UNION {{f \in [1..n -> SampleBlocks] : \A i \in 1..n : f[i].end.s >= 0}
           : n \in 0..MaxDelayBlocks}

InitDelay ==
    /\ pc = "delay"
    /\ BatchIdle
    /\ RenderIdle
    /\ RescaleIdle
    /\ AudioIdle
    /\ SyncIdle
    /\ AppIdle
    /\ blocks \in DelaySrtFiles
    /\ delay_ms \in Delays
    /\ processed = <<>>

\* one call of process_srt
Delay ==
    /\ pc = "delay"
    /\ pc' = "delayed"
    /\ processed' = ProcessSrt(blocks, delay_ms)
    /\ UNCHANGED <<batchVars, renderVars, rescaleVars, audioVars, trackVars, syncVars,
                   appVars, blocks, delay_ms>>

NextDelay == Delay

SpecDelay == InitDelay /\ [][NextDelay]_vars

\* the retimed block before block i, 0 if there is none
RECURSIVE RetimedBefore(_)
RetimedBefore(i) ==
    IF i <= 1 THEN 0
    ELSE IF Retimed(blocks[i - 1]) THEN i - 1 ELSE RetimedBefore(i - 1)

\* the written end of the retimed block before block i, 0 if there is none
EndBefore(i) ==
    IF RetimedBefore(i) = 0 THEN 0 ELSE TimecodeToMs(processed[RetimedBefore(i)].end)

\* what C30 says of the written timeline
NoOverlapAfterDelay ==
    /\ Len(processed) = Len(blocks)
    /\ \A i \in 1..Len(blocks) :
           Retimed(blocks[i]) =>
               /\ TimecodeToMs(processed[i].start) >= EndBefore(i)
               /\ TimecodeToMs(processed[i].start) >= 0
               /\ TimecodeToMs(processed[i].end) - TimecodeToMs(processed[i].start)
                      = TimecodeToMs(blocks[i].end) - TimecodeToMs(blocks[i].start)
               /\ TimecodeToMs(processed[i].start)
                      = Max(EndBefore(i), TimecodeToMs(blocks[i].start) + delay_ms)

\* no retimed block of the input ends before it starts
EndsNotBeforeStarts ==
    \A i \in 1..Len(blocks) :
        Retimed(blocks[i]) => TimecodeToMs(blocks[i].end) >= TimecodeToMs(blocks[i].start)

\* C30 as stated: for every delay, the blocks process_srt retimed do not
\* overlap in the file it writes: each starts at the later of the end written
\* for the retimed block before it (0 for the first) and its original start plus
\* the delay, never before 0, and lasts as long as it did.
C30_NoOverlapForAnyDelay == (pc = "delayed") => NoOverlapAfterDelay

\* C30 amended: that holds when no retimed block of the input ends before it
\* starts.
C30_NoOverlapWhenEndsNotBeforeStarts ==
    (pc = "delayed" /\ EndsNotBeforeStarts) => NoOverlapAfterDelay

\* a negative delay: the first block is held at 0 and pushes the two after it
C30_Witness ==
    /\ pc = "delayed"
    /\ EndsNotBeforeStarts
    /\ delay_ms = -2500
    /\ Len(blocks) = 3
    /\ \A i \in 1..3 : Retimed(blocks[i])
    /\ TimecodeToMs(blocks[1].start) = 1000
    /\ TimecodeToMs(processed[1].start) = 0
    /\ TimecodeToMs(processed[2].start) = TimecodeToMs(processed[1].end)
    /\ TimecodeToMs(processed[2].start) > TimecodeToMs(blocks[2].start) + delay_ms
    /\ TimecodeToMs(processed[3].start) = TimecodeToMs(processed[2].end)
    /\ NoOverlapAfterDelay


----------------------------------------------------------------------------
(* The window's run flag: gui.py start_generation, start_audio_generation, *)
(* prompt_for_output_and_generate, run_external_script, generate_video,    *)
(* generate_audio_only and cancel_generation                               *)

\* positions of a run's worker thread at which the run is over
OverPositions == {"finished", "failed", "dropped"}
InProgress(t) == t.at \notin OverPositions

Runs == 1..Len(thread)

\* a run as its thread starts
NewRun(kind, at) ==
    [kind |-> kind, at |-> at, output_path |-> FALSE, adjusted_srt |-> FALSE,
     segments |-> 0, cancelled |-> FALSE]

\* start_generation: the button callback on the main thread
StartGeneration ==
    /\ pc = "window"
    /\ cancel = NoCancel
    /\ Len(thread) < MaxRuns
    /\ ~running
    /\ running' = TRUE
    /\ thread' = Append(thread, NewRun("video", "prompt"))
    /\ pool' = Append(pool, <<>>)
    /\ UNCHANGED <<pc, batchVars, renderVars, rescaleVars, audioVars, trackVars, syncVars,
                   delayVars, futures, cancel>>

\* start_audio_generation: the flag is set without being read
StartAudioGeneration ==
    /\ pc = "window"
    /\ cancel = NoCancel
    /\ Len(thread) < MaxRuns
    /\ running' = TRUE
    /\ thread' = Append(thread, NewRun("audio", "audio"))
    /\ pool' = Append(pool, <<>>)
    /\ UNCHANGED <<pc, batchVars, renderVars, rescaleVars, audioVars, trackVars, syncVars,
                   delayVars, futures, cancel>>

\* prompt_for_output_and_generate: the file dialog returns a path or nothing
\* and run_external_script is called
ChooseOutput(r) ==
    /\ thread[r].at = "prompt"
    /\ \E chosen \in BOOLEAN :
           thread' = [thread EXCEPT ![r].at = "adjusting", ![r].output_path = chosen]
    /\ UNCHANGED <<pc, batchVars, renderVars, rescaleVars, audioVars, trackVars, syncVars,
                   delayVars, running, pool, futures, cancel>>

\* run_external_script returns the adjusted file, or None after an error; its
\* finally clause clears the flag
RunExternalScript(r) ==
    /\ thread[r].at = "adjusting"
    /\ \E ok \in BOOLEAN :
           thread' = [thread EXCEPT ![r].at = "adjusted", ![r].adjusted_srt = ok]
    /\ running' = FALSE
    /\ UNCHANGED <<pc, batchVars, renderVars, rescaleVars, audioVars, trackVars, syncVars,
                   delayVars, pool, futures, cancel>>

\* prompt_for_output_and_generate after run_external_script: the thread of
\* generate_video is started if a path was chosen
AfterAdjust(r) ==
    /\ thread[r].at = "adjusted"
    /\ IF thread[r].output_path
       THEN /\ thread' = [thread EXCEPT ![r].at = "starting"]
            /\ running' = running
       ELSE /\ thread' = [thread EXCEPT ![r].at = "dropped"]
            /\ running' = FALSE
    /\ UNCHANGED <<pc, batchVars, renderVars, rescaleVars, audioVars, trackVars, syncVars,
                   delayVars, pool, futures, cancel>>

\* generate_video up to self.futures = list(...): an exception before the
\* batches are submitted ends the run through the finally clause
GenerateVideoSubmit(r) ==
    /\ thread[r].at = "starting"
    /\ \/ /\ thread[r].adjusted_srt
          /\ \E n \in 1..MaxRunBatches :
                 pool' = [pool EXCEPT ![r] = [b \in 1..n |-> "pending"]]
          /\ thread' = [thread EXCEPT ![r].at = "rendering"]
          /\ futures' = r
          /\ running' = running
       \/ /\ thread' = [thread EXCEPT ![r].at = "failed"]
          /\ running' = FALSE
          /\ futures' = 0
          /\ pool' = pool
    /\ UNCHANGED <<pc, batchVars, renderVars, rescaleVars, audioVars, trackVars, syncVars,
                   delayVars, cancel>>

\* a free worker of the run's pool takes the oldest pending batch
RunBatchStart(r, b) ==
    /\ thread[r].at = "rendering"
    /\ pool[r][b] = "pending"
    /\ \A c \in 1..(b - 1) : pool[r][c] # "pending"
    /\ Cardinality({c \in 1..Len(pool[r]) : pool[r][c] = "running"}) < PoolGenerateVideo
    /\ pool' = [pool EXCEPT ![r][b] = "running"]
    /\ UNCHANGED <<pc, batchVars, renderVars, rescaleVars, audioVars, trackVars, syncVars,
                   delayVars, running, thread, futures, cancel>>

\* process_batch returns a segment path or None
RunBatchDone(r, b) ==
    /\ thread[r].at = "rendering"
    /\ pool[r][b] = "running"
    /\ \E returned \in {"segment", "none"} : pool' = [pool EXCEPT ![r][b] = returned]
    /\ UNCHANGED <<pc, batchVars, renderVars, rescaleVars, audioVars, trackVars, syncVars,
                   delayVars, running, thread, futures, cancel>>

\* one turn of the as_completed loop: a cancelled future raises in result()
\* and is logged
RunCollect(r, b) ==
    /\ thread[r].at = "rendering"
    /\ pool[r][b] \in {"segment", "none", "cancelled"}
    /\ pool' = [pool EXCEPT ![r][b] = "collected"]
    /\ thread' = [thread EXCEPT ![r].segments =
                      IF pool[r][b] = "segment" THEN @ + 1 ELSE @]
    /\ UNCHANGED <<pc, batchVars, renderVars, rescaleVars, audioVars, trackVars, syncVars,
                   delayVars, running, futures, cancel>>

\* after the pool has shut down: combine_segments is called unless there is
\* no segment
RunCombine(r) ==
    /\ thread[r].at = "rendering"
    /\ \A b \in 1..Len(pool[r]) : pool[r][b] = "collected"
    /\ IF thread[r].segments = 0
       THEN /\ thread' = [thread EXCEPT ![r].at = "failed"]
            /\ running' = FALSE
            /\ futures' = 0
       ELSE /\ thread' = [thread EXCEPT ![r].at = "combining"]
            /\ UNCHANGED <<running, futures>>
    /\ UNCHANGED <<pc, batchVars, renderVars, rescaleVars, audioVars, trackVars, syncVars,
                   delayVars, pool, cancel>>

\* combine_segments returns or raises, then the finally clause of generate_video
RunFinish(r) ==
    /\ thread[r].at = "combining"
    /\ \E at \in {"finished", "failed"} : thread' = [thread EXCEPT ![r].at = at]
    /\ running' = FALSE
    /\ futures' = 0
    /\ UNCHANGED <<pc, batchVars, renderVars, rescaleVars, audioVars, trackVars, syncVars,
                   delayVars, pool, cancel>>

\* generate_audio_only ends, with or without an exception
AudioDone(r) ==
    /\ thread[r].at = "audio"
    /\ \E at \in {"finished", "failed"} : thread' = [thread EXCEPT ![r].at = at]
    /\ running' = FALSE
    /\ UNCHANGED <<pc, batchVars, renderVars, rescaleVars, audioVars, trackVars, syncVars,
                   delayVars, pool, futures, cancel>>

\* cancel_generation up to its loop: the flag is cleared if it was set; the
\* runs in progress at that moment are the ones the cancellation is about
CancelGeneration ==
    /\ pc = "window"
    /\ cancel = NoCancel
    /\ running
    /\ running' = FALSE
    /\ thread' = [r \in Runs |->
                     IF InProgress(thread[r]) THEN [thread[r] EXCEPT !.cancelled = TRUE]
                     ELSE thread[r]]
    /\ cancel' = IF futures = 0 THEN NoCancel ELSE [at |-> 1, of |-> futures]
    /\ UNCHANGED <<pc, batchVars, renderVars, rescaleVars, audioVars, trackVars, syncVars,
                   delayVars, pool, futures>>

\* one turn of "for future in self.futures: future.cancel()": only a future
\* that has not started is cancelled
CancelFuture ==
    /\ cancel # NoCancel
    /\ pool' = [pool EXCEPT ![cancel.of][cancel.at] =
                    IF @ = "pending" THEN "cancelled" ELSE @]
    /\ cancel' = IF cancel.at = Len(pool[cancel.of]) THEN NoCancel
                 ELSE [cancel EXCEPT !.at = @ + 1]
    /\ UNCHANGED <<pc, batchVars, renderVars, rescaleVars, audioVars, trackVars, syncVars,
                   delayVars, running, thread, futures>>

InitApp ==
    /\ pc = "window"
    /\ BatchIdle
    /\ RenderIdle
    /\ RescaleIdle
    /\ AudioIdle
    /\ SyncIdle
    /\ DelayIdle
    /\ AppIdle

NextApp ==
    \/ StartGeneration
    \/ StartAudioGeneration
    \/ CancelGeneration
    \/ CancelFuture
    \/ \E r \in Runs : ChooseOutput(r)
    \/ \E r \in Runs : RunExternalScript(r)
    \/ \E r \in Runs : AfterAdjust(r)
    \/ \E r \in Runs : GenerateVideoSubmit(r)
    \/ \E r \in Runs : \E b \in 1..Len(pool[r]) : RunBatchStart(r, b)
    \/ \E r \in Runs : \E b \in 1..Len(pool[r]) : RunBatchDone(r, b)
    \/ \E r \in Runs : \E b \in 1..Len(pool[r]) : RunCollect(r, b)
    \/ \E r \in Runs : RunCombine(r)
    \/ \E r \in Runs : RunFinish(r)
    \/ \E r \in Runs : AudioDone(r)

SpecApp == InitApp /\ [][NextApp]_vars

\* C22: for a run that was in progress when cancel_generation cleared the
\* flag, no batch that had not started is started afterwards and the final
\* concatenation is not started afterwards; this is a property of every step.
C22_NoNewEncoderWorkAfterCancel ==
    [][\A r \in Runs :
           thread[r].cancelled =>
               /\ \A b \in 1..Len(pool[r]) :
                      pool[r][b] = "pending" => pool'[r][b] # "running"
               /\ thread[r].at = "starting" => thread'[r].at # "rendering"
               /\ thread[r].at = "rendering" => thread'[r].at # "combining"]_vars

\* C28: at most one run is in progress, and the flag is set as long as a run
\* that was not cancelled is in progress.
C28_SingleRunWhileFlagSet ==
    /\ Cardinality({r \in Runs : InProgress(thread[r])}) <= 1
    /\ \A r \in Runs : (InProgress(thread[r]) /\ ~thread[r].cancelled) => running

====
